---- MODULE Spec2Model ----
(***************************************************************************)
(* Model of locations/automatic_spider_generator.py (the code synthesizer, *)
(* the declaration-time enrichment hook, the detection and extraction      *)
(* protocols) and of locations/spiders/poczta_polska_pl.py (the request    *)
(* chain of PocztaPolskaPLSpider).                                         *)
(***************************************************************************)
EXTENDS Integers, Sequences, FiniteSets, TLC

VARIABLES
    classes,    \* the declared spider classes, in declaration order
    heap,       \* the dict objects alive in the interpreter, by identity
    out,        \* what the most recent call returned (or that it raised)
    plugin,     \* the store finder under test: its entry method and its methods
    phase,      \* of the detection or extraction chain: idle, pending, done
    flight,     \* the chain's requests in flight
    steps,      \* the methods the chain has invoked, in order
    result,     \* the chain's final result
    listing,    \* PocztaPolskaPLSpider: the locations of the listing response
    pc,         \* parse: the number of locations already handled (-1: not started)
    items,      \* the Feature objects parse created, by identity
    requests,   \* the point-info requests in flight
    issued,     \* every point-info request parse has yielded, in order
    yielded     \* what parse2 has yielded, in order

genVars == <<classes, heap, out>>
chainVars == <<plugin, phase, flight, steps, result>>
pocztaVars == <<listing, pc, items, requests, issued, yielded>>
vars == <<genVars, chainVars, pocztaVars>>

-----------------------------------------------------------------------------
(* Bounds of the model.                                                    *)

MaxListLen == 1
MaxClasses == 2
MaxMethods == 3
MaxSteps == 4
MaxLocations == 2

-----------------------------------------------------------------------------
(* Python values.  A dict is a reference into the heap, because dicts are  *)
(* mutable and shared by identity; strings, ints, None, functions and the  *)
(* lists the code only reads are values.                                   *)

PyNone == [t |-> "none", s |-> "", ref |-> 0, items |-> <<>>]
PyStr(s) == [t |-> "str", s |-> s, ref |-> 0, items |-> <<>>]
PyInt(s) == [t |-> "int", s |-> s, ref |-> 0, items |-> <<>>]
PyFunc == [t |-> "func", s |-> "", ref |-> 0, items |-> <<>>]
PyList(elems) == [t |-> "list", s |-> "", ref |-> 0, items |-> elems]
PyDict(ref) == [t |-> "dict", s |-> "", ref |-> ref, items |-> <<>>]
\* an object that defines __len__ but cannot be iterated (for instance a
\* nested class whose body defines __len__)
PySized == [t |-> "sized", s |-> "", ref |-> 0, items |-> <<>>]

Entry(k, v) == [k |-> k, v |-> v]

-----------------------------------------------------------------------------
(* Attribute names and Python's ordering of them.                          *)

ReservedKeys == {"name", "item_attributes", "allowed_domains", "start_urls"}
OtherKeys == {"download_delay", "requires_proxy", "user_agent", "_hidden", "parse"}
AllKeys == ReservedKeys \cup OtherKeys

\* the code points of each attribute name
Spelling(k) ==
    CASE k = "name" -> <<110, 97, 109, 101>>
      [] k = "item_attributes" -> <<105, 116, 101, 109, 95, 97, 116, 116, 114, 105, 98, 117, 116, 101, 115>>
      [] k = "allowed_domains" -> <<97, 108, 108, 111, 119, 101, 100, 95, 100, 111, 109, 97, 105, 110, 115>>
      [] k = "start_urls" -> <<115, 116, 97, 114, 116, 95, 117, 114, 108, 115>>
      [] k = "download_delay" -> <<100, 111, 119, 110, 108, 111, 97, 100, 95, 100, 101, 108, 97, 121>>
      [] k = "requires_proxy" -> <<114, 101, 113, 117, 105, 114, 101, 115, 95, 112, 114, 111, 120, 121>>
      [] k = "user_agent" -> <<117, 115, 101, 114, 95, 97, 103, 101, 110, 116>>
      [] k = "_hidden" -> <<95, 104, 105, 100, 100, 101, 110>>
      [] k = "parse" -> <<112, 97, 114, 115, 101>>

\* str.__lt__: lexicographic comparison by code point
RECURSIVE SeqLess(_, _)
SeqLess(a, b) ==
    IF b = <<>> THEN FALSE
    ELSE IF a = <<>> THEN TRUE
    ELSE IF Head(a) # Head(b) THEN Head(a) < Head(b)
    ELSE SeqLess(Tail(a), Tail(b))

StrLess(a, b) == SeqLess(Spelling(a), Spelling(b))

\* k.startswith("_")
StartsWithUnderscore(k) == Spelling(k)[1] = 95

\* sorted(...) over items whose keys are distinct: ascending keys
RECURSIVE SortedKeys(_)
SortedKeys(S) ==
    IF S = {} THEN <<>>
    ELSE LET m == CHOOSE x \in S : \A y \in S \ {x} : StrLess(x, y)
         IN  <<m>> \o SortedKeys(S \ {m})

InSeq(x, s) == \E i \in 1..Len(s) : s[i] = x

\* dict.update on the key order of a dict: keys already present keep their
\* place, new keys are appended
RECURSIVE UpdateKeys(_, _)
UpdateKeys(keys, new) ==
    IF new = <<>> THEN keys
    ELSE UpdateKeys(IF InSeq(Head(new), keys) THEN keys ELSE Append(keys, Head(new)),
                    Tail(new))

-----------------------------------------------------------------------------
(* generate_spider_attributes_code and generate_spider_code.               *)

\* the default value of the sort_order parameter
sort_order == <<"name", "item_attributes", "allowed_domains", "start_urls">>

\* vars(spider): the class's own namespace, inherited attributes excluded
Vars(c) == classes[c].attrs

\* a plausible slip: a None value printed as text instead of being dropped
SpiderAttributesNoneAsText(d) ==
    [k \in {x \in DOMAIN d : ~StartsWithUnderscore(x)} |->
        IF d[k].t = "none" THEN PyStr("None") ELSE d[k]]

\* line 50
SpiderAttributes(d) ==
    [k \in {x \in DOMAIN d : ~StartsWithUnderscore(x) /\ d[x].t # "none"} |-> d[k]]

\* a plausible slip: every key sorted alphabetically, sort_order ignored
SpiderAttributesSortedAlphabetical(sa) ==
    SortedKeys(DOMAIN sa)

\* lines 51-54: the key order of spider_attributes_sorted
SpiderAttributesSorted(sa) ==
    LET first == SelectSeq(sort_order, LAMBDA k : k \in DOMAIN sa)
        rest == SelectSeq(SortedKeys(DOMAIN sa), LAMBDA k : ~InSeq(k, sort_order))
    IN  UpdateKeys(first, rest)

Line(l, k, v) == [l |-> l, k |-> k, v |-> v, n |-> 0, supers |-> <<>>]

\* lines 58-60: one line per string-valued entry, in insertion order
RECURSIVE DictLines(_)
DictLines(es) ==
    IF es = <<>> THEN <<>>
    ELSE (IF Head(es).v.t = "str" THEN <<Line("sub", Head(es).k, Head(es).v.s)>> ELSE <<>>)
         \o DictLines(Tail(es))

\* lines 66-68: one line per string element, in order
RECURSIVE ListLines(_)
ListLines(elems) ==
    IF elems = <<>> THEN <<>>
    ELSE (IF Head(elems).t = "str" THEN <<Line("elem", "", Head(elems).s)>> ELSE <<>>)
         \o ListLines(Tail(elems))

\* hasattr(v, "__len__")
HasLen(v) == v.t \in {"str", "dict", "list", "sized"}

\* a plausible slip: a value of any other type printed by a fallback branch
AttributeLinesWithFallback(k, v) ==
    IF v.t = "dict"
    THEN <<Line("dict_open", k, "")>> \o DictLines(heap[v.ref]) \o <<Line("dict_close", "", "")>>
    ELSE IF v.t = "str" THEN <<Line("attr", k, v.s)>>
    ELSE IF HasLen(v)
    THEN <<Line("list_open", k, "")>> \o ListLines(v.items) \o <<Line("list_close", "", "")>>
    ELSE <<Line("attr", k, v.t)>>

\* lines 56-69: the text one attribute adds
AttributeLines(k, v) ==
    IF v.t = "dict"
    THEN <<Line("dict_open", k, "")>> \o DictLines(heap[v.ref]) \o <<Line("dict_close", "", "")>>
    ELSE IF v.t = "str" THEN <<Line("attr", k, v.s)>>
    ELSE IF HasLen(v)
    THEN <<Line("list_open", k, "")>> \o ListLines(v.items) \o <<Line("list_close", "", "")>>
    ELSE <<>>

RECURSIVE AttributesLines(_, _)
AttributesLines(d, keys) ==
    IF keys = <<>> THEN <<>>
    ELSE AttributeLines(Head(keys), d[Head(keys)]) \o AttributesLines(d, Tail(keys))

\* line 66 raises TypeError when the value has __len__ but is not iterable
AttributesRaise(d, keys) == \E i \in 1..Len(keys) : d[keys[i]].t = "sized"

Returned(lines) == [err |-> FALSE, lines |-> lines]
Raised == [err |-> TRUE, lines |-> <<>>]

\* lines 49-70, on the namespace d of the class
AttributesCode(d) ==
    LET sa == SpiderAttributes(d)
        keys == SpiderAttributesSorted(sa)
    IN  IF AttributesRaise(sa, keys) THEN Raised
        ELSE Returned(AttributesLines(sa, keys))

generate_spider_attributes_code(c) == AttributesCode(Vars(c))

\* lines 18-20: one import line per base, in the order of __bases__
RECURSIVE ImportLines(_)
ImportLines(bases) ==
    IF bases = <<>> THEN <<>>
    ELSE <<[l |-> "import", k |-> "", v |-> "", n |-> Head(bases), supers |-> <<>>]>>
         \o ImportLines(Tail(bases))

\* lines 16-29, on the namespace d of class c
SpiderCode(c, d) ==
    LET body == AttributesCode(d)
    IN  IF body.err THEN Raised
        ELSE Returned(ImportLines(classes[c].bases)
                      \o <<[l |-> "class", k |-> "", v |-> "", n |-> c,
                            supers |-> classes[c].bases]>>
                      \o body.lines)

generate_spider_code(c) == SpiderCode(c, Vars(c))

-----------------------------------------------------------------------------
(* The parts of the state a specification does not use stay as they are.  *)

NoPlugin == [entry |-> 0, ret |-> <<>>]
EmptyRecord == [x \in {} |-> ""]
NoResult == [kind |-> "none", val |-> FALSE, rec |-> EmptyRecord]
ChainIdle ==
    /\ plugin = NoPlugin
    /\ phase = "idle"
    /\ flight = <<>>
    /\ steps = <<>>
    /\ result = NoResult

GeneratorIdle ==
    /\ classes = <<>>
    /\ heap = <<>>
    /\ out = [op |-> "none", cls |-> 0, err |-> FALSE, lines |-> <<>>]

PocztaIdle ==
    /\ listing = <<>>
    /\ pc = -1
    /\ items = <<>>
    /\ requests = <<>>
    /\ issued = <<>>
    /\ yielded = <<>>

-----------------------------------------------------------------------------
(* The calls.  out records the most recent call: which operation, on which *)
(* class, and what it returned.                                            *)

NoCall == [op |-> "none", cls |-> 0, err |-> FALSE, lines |-> <<>>]
Call(op, c, r) == [op |-> op, cls |-> c, err |-> r.err, lines |-> r.lines]

\* a plausible slip: the blocks are printed by emptying the mappings
GenerateSpiderCodeConsuming(c) ==
    /\ c \in 1..Len(classes)
    /\ out' = Call("generate_spider_code", c, generate_spider_code(c))
    /\ heap' = [r \in 1..Len(heap) |->
                 IF \E k \in DOMAIN classes[c].attrs :
                        classes[c].attrs[k].t = "dict" /\ classes[c].attrs[k].ref = r
                 THEN <<>> ELSE heap[r]]
    /\ UNCHANGED <<classes, chainVars, pocztaVars>>

\* AutomaticSpiderGenerator.generate_spider_code(spider)
GenerateSpiderCode(c) ==
    /\ c \in 1..Len(classes)
    /\ out' = Call("generate_spider_code", c, generate_spider_code(c))
    /\ UNCHANGED <<classes, heap, chainVars, pocztaVars>>

\* AutomaticSpiderGenerator.generate_spider_attributes_code(spider)
GenerateSpiderAttributesCode(c) ==
    /\ c \in 1..Len(classes)
    /\ out' = Call("generate_spider_attributes_code", c, generate_spider_attributes_code(c))
    /\ UNCHANGED <<classes, heap, chainVars, pocztaVars>>

-----------------------------------------------------------------------------
(* Rendering one class: the class is drawn from the attribute values a     *)
(* class body can hold, then rendered.                                     *)

Absent == [t |-> "absent", s |-> "", ref |-> 0, items |-> <<>>]
Present(full) == [k \in {x \in DOMAIN full : full[x] # Absent} |-> full[k]]

NoKwargs == [x \in {} |-> PyNone]
Root == 0
\* body and kw record how the class was declared; the program keeps neither
Class(bases, attrs, body, kw) == [bases |-> bases, attrs |-> attrs, body |-> body, kw |-> kw]

Elems == {PyStr("acme.example"), PyInt("7")}
Lists == UNION {[1..n -> Elems] : n \in 0..MaxListLen}

\* the dict objects the rendered class bodies refer to
RenderHeap ==
    << <<>>,
       <<Entry("brand", PyStr("Acme")), Entry("brand_wikidata", PyStr("Q1"))>>,
       <<Entry("brand", PyInt("7")), Entry("operator", PyStr("Op"))>> >>

InitRender ==
    \E nm \in {Absent, PyNone, PyStr("acme_example"), PyStr("")},
       ia \in {Absent, PyNone, PyDict(1), PyDict(2), PyDict(3)},
       ad \in {Absent} \cup {PyList(l) : l \in Lists},
       su \in {Absent, PyList(<<PyStr("https://acme.example/stores")>>)},
       dd \in {Absent, PyNone, PyInt("5")},
       rp \in {Absent, PyStr("yes"), PySized},
       ua \in {Absent, PyStr("bot")},
       hd \in {Absent, PyStr("secret")},
       pf \in {Absent, PyFunc} :
        classes = <<Class(<<Root>>,
                          Present(("name" :> nm) @@ ("item_attributes" :> ia)
                                  @@ ("allowed_domains" :> ad) @@ ("start_urls" :> su)
                                  @@ ("download_delay" :> dd) @@ ("requires_proxy" :> rp)
                                  @@ ("user_agent" :> ua) @@ ("_hidden" :> hd)
                                  @@ ("parse" :> pf)),
                          NoKwargs, NoKwargs)>>
    /\ heap = RenderHeap
    /\ out = NoCall
    /\ ChainIdle
    /\ PocztaIdle

NextRender ==
    \/ \E c \in 1..Len(classes) : GenerateSpiderCode(c)
    \/ \E c \in 1..Len(classes) : GenerateSpiderAttributesCode(c)

SpecRender == InitRender /\ [][NextRender]_vars

-----------------------------------------------------------------------------
(* __init_subclass__: the declaration-time enrichment.  A world is the     *)
(* interpreter state the hook works on: the classes, the heap, and whether *)
(* an exception is propagating.                                            *)

\* the value of a keyword argument that is a dict (extracted_attributes)
PyMapping(entries) == [t |-> "mapping", s |-> "", ref |-> 0, items |-> entries]

\* truth value of a Python object
Truthy(v) ==
    CASE v.t = "str" -> v.s # ""
      [] v.t \in {"list", "mapping"} -> v.items # <<>>
      [] v.t = "none" -> FALSE
      [] OTHER -> TRUE

\* the classes attribute lookup visits: the class, then its bases
RECURSIVE Mro(_, _)
Mro(cs, c) == IF c = Root THEN <<>> ELSE <<c>> \o Mro(cs, cs[c].bases[1])

\* hasattr(cls, k)
HasAttr(cs, c, k) == \E i \in 1..Len(Mro(cs, c)) : k \in DOMAIN cs[Mro(cs, c)[i]].attrs

\* getattr(cls, k): the first class of the lookup order that defines k
GetAttr(cs, c, k) ==
    LET m == Mro(cs, c)
        i == CHOOSE i \in 1..Len(m) :
                 /\ k \in DOMAIN cs[m[i]].attrs
                 /\ \A j \in 1..(i - 1) : k \notin DOMAIN cs[m[j]].attrs
    IN  cs[m[i]].attrs[k]

\* d[key] = v on a dict: an existing key keeps its place
DictSet(es, key, v) ==
    IF \E i \in 1..Len(es) : es[i].k = key
    THEN [i \in 1..Len(es) |-> IF es[i].k = key THEN Entry(key, v) ELSE es[i]]
    ELSE Append(es, Entry(key, v))

\* setattr(cls, k, v): always on the class's own namespace
SetAttr(w, c, k, v) ==
    [w EXCEPT !.cs[c].attrs = [x \in DOMAIN @ \cup {k} |-> IF x = k THEN v ELSE @[x]]]

\* lines 139, 141, 146, 148: cls.item_attributes[key] = v, on whatever object
\* the lookup finds; TypeError when that object is no dict
SetItem(w, c, key, v) ==
    IF w.err THEN w
    ELSE LET target == GetAttr(w.cs, c, "item_attributes")
         IN  IF target.t = "dict"
             THEN [w EXCEPT !.hp[target.ref] = DictSet(@, key, v)]
             ELSE [w EXCEPT !.err = TRUE]

\* lines 136-141 and 143-148
Fold(w, c, kw, idKey, nameKey) ==
    IF idKey \in DOMAIN kw /\ Truthy(kw[idKey])
    THEN LET w1 == IF ~HasAttr(w.cs, c, "item_attributes")
                   THEN [SetAttr(w, c, "item_attributes", PyDict(Len(w.hp) + 1))
                            EXCEPT !.hp = Append(@, <<>>)]
                   ELSE w
             w2 == SetItem(w1, c, idKey, kw[idKey])
         IN  IF nameKey \in DOMAIN kw /\ Truthy(kw[nameKey])
             THEN SetItem(w2, c, nameKey, kw[nameKey])
             ELSE w2
    ELSE w

\* a plausible slip: the rename applied only to a class without a name
RenameIfUnnamed(w, c, kw) ==
    IF w.err THEN w
    ELSE IF "spider_key" \in DOMAIN kw /\ Truthy(kw["spider_key"])
            /\ ~HasAttr(w.cs, c, "name")
    THEN SetAttr(w, c, "name", kw["spider_key"])
    ELSE w

\* lines 150-151
Rename(w, c, kw) ==
    IF w.err THEN w
    ELSE IF "spider_key" \in DOMAIN kw /\ Truthy(kw["spider_key"])
    THEN SetAttr(w, c, "name", kw["spider_key"])
    ELSE w

RECURSIVE SetAll(_, _, _)
SetAll(w, c, es) ==
    IF es = <<>> THEN w ELSE SetAll(SetAttr(w, c, Head(es).k, Head(es).v), c, Tail(es))

\* lines 135-155
InitSubclass(w, c, kw) ==
    LET w3 == Rename(Fold(Fold(w, c, kw, "brand_wikidata", "brand"),
                          c, kw, "operator_wikidata", "operator"),
                     c, kw)
    IN  IF w3.err THEN w3
        ELSE IF "extracted_attributes" \in DOMAIN kw /\ Truthy(kw["extracted_attributes"])
        THEN SetAll(w3, c, kw["extracted_attributes"].items)
        ELSE w3

\* the class body: each dict literal is a new object
RECURSIVE ExecBody(_, _, _, _)
ExecBody(w, c, body, keys) ==
    IF keys = <<>> THEN w
    ELSE LET k == Head(keys)
             w1 == IF body[k].t = "mapping"
                   THEN [SetAttr(w, c, k, PyDict(Len(w.hp) + 1))
                            EXCEPT !.hp = Append(@, body[k].items)]
                   ELSE SetAttr(w, c, k, body[k])
         IN  ExecBody(w1, c, body, Tail(keys))

\* class <c>(<base>, **kw): <body> -- the body runs, the class is created,
\* then the hook runs on it; when the hook raises, the class statement
\* raises and binds nothing
Declare(base, body, kw) ==
    /\ Len(classes) < MaxClasses
    /\ base \in 0..Len(classes)
    /\ LET c == Len(classes) + 1
           w0 == [cs |-> Append(classes, Class(<<base>>, NoKwargs, body, kw)),
                  hp |-> heap, err |-> FALSE]
           w == InitSubclass(ExecBody(w0, c, body, SortedKeys(DOMAIN body)), c, kw)
       IN  IF w.err
           THEN /\ out' = [op |-> "class", cls |-> c, err |-> TRUE, lines |-> <<>>]
                /\ heap' = SubSeq(w.hp, 1, Len(heap))
                /\ UNCHANGED classes
           ELSE /\ out' = [op |-> "class", cls |-> c, err |-> FALSE, lines |-> <<>>]
                /\ classes' = w.cs
                /\ heap' = w.hp
    /\ UNCHANGED <<chainVars, pocztaVars>>

-----------------------------------------------------------------------------
(* Declarations with brand and operator metadata, rendered in between.     *)

Kw(k, s) == k :> PyStr(s)

BrandArgs ==
    { NoKwargs,
      Kw("brand_wikidata", "") @@ Kw("brand", "Acme"),
      Kw("brand_wikidata", "Q1") @@ Kw("brand", "Brand One"),
      Kw("brand_wikidata", "Q2") }

OperatorArgs ==
    { NoKwargs, Kw("operator_wikidata", "Q9") @@ Kw("operator", "Op") }

ItemAttributesBodies ==
    { NoKwargs,
      "item_attributes" :> PyNone,
      "item_attributes" :> PyMapping(<<Entry("brand", PyStr("Acme"))>>) }

Init ==
    /\ classes = <<>>
    /\ heap = <<>>
    /\ out = NoCall
    /\ ChainIdle
    /\ PocztaIdle

Next ==
    \/ \E base \in 0..MaxClasses, body \in ItemAttributesBodies,
          b \in BrandArgs, o \in OperatorArgs : Declare(base, body, b @@ o)
    \/ \E c \in 1..MaxClasses : GenerateSpiderCode(c)
    \/ \E c \in 1..MaxClasses : GenerateSpiderAttributesCode(c)

Spec == Init /\ [][Next]_vars

-----------------------------------------------------------------------------
(* Declarations with a spider_key, extracted attributes and a brand.       *)

NameBodies == { NoKwargs, "name" :> PyStr("old_name") }

SpiderKeyArgs == { NoKwargs, Kw("spider_key", ""), Kw("spider_key", "new_name") }

ExtractedArgs ==
    { NoKwargs,
      "extracted_attributes" :> PyMapping(<<Entry("name", PyStr("extracted_name"))>>),
      "extracted_attributes" :>
          PyMapping(<<Entry("start_urls", PyList(<<PyStr("https://acme.example/stores")>>))>>) }

KeyBrandArgs ==
    { NoKwargs,
      Kw("brand_wikidata", "Q1") @@ Kw("brand", "Brand One")
        @@ Kw("operator_wikidata", "Q9") @@ Kw("operator", "Op") }

NextKey ==
    \/ \E base \in 0..MaxClasses, body \in NameBodies, k \in SpiderKeyArgs,
          e \in ExtractedArgs, b \in KeyBrandArgs : Declare(base, body, k @@ e @@ b)
    \/ \E c \in 1..MaxClasses : GenerateSpiderCode(c)

SpecKey == Init /\ [][NextKey]_vars

-----------------------------------------------------------------------------
(* What a rendered text shows.                                             *)

IsRender(o) == o.op \in {"generate_spider_code", "generate_spider_attributes_code"}

\* the keys of the attribute lines and blocks of a text, in order
EmittedKeys(lines) ==
    LET heads == SelectSeq(lines, LAMBDA ln : ln.l \in {"attr", "dict_open", "list_open"})
    IN  [i \in 1..Len(heads) |-> heads[i].k]

IndexIn(x, s) == CHOOSE i \in 1..Len(s) : s[i] = x

\* C1: in every rendered text the reserved keys name, item_attributes,
\* allowed_domains, start_urls come in that relative order and before every
\* other key, the other keys come in ascending order, and no key comes twice.
C1_KeyOrder ==
    (IsRender(out) /\ ~out.err) =>
        LET ks == EmittedKeys(out.lines)
        IN  \A i, j \in 1..Len(ks) :
                i < j =>
                    /\ ks[i] # ks[j]
                    /\ ks[j] \in ReservedKeys => ks[i] \in ReservedKeys
                    /\ (ks[i] \in ReservedKeys /\ ks[j] \in ReservedKeys)
                          => IndexIn(ks[i], sort_order) < IndexIn(ks[j], sort_order)
                    /\ (ks[i] \notin ReservedKeys /\ ks[j] \notin ReservedKeys)
                          => StrLess(ks[i], ks[j])

C1_Witness ==
    /\ out.op = "generate_spider_attributes_code"
    /\ ~out.err
    /\ EmittedKeys(out.lines)
         = <<"name", "item_attributes", "allowed_domains", "start_urls",
             "requires_proxy", "user_agent">>

\* every key a text names, at the top level or inside a block
KeysIn(lines) == {lines[i].k : i \in 1..Len(lines)} \ {""}
Heads(lines) == {EmittedKeys(lines)[i] : i \in 1..Len(EmittedKeys(lines))}

IsEmptyEquivalent(v) ==
    \/ v.t = "none"
    \/ v.t = "str" /\ v.s = ""
    \/ v.t = "dict" /\ heap[v.ref] = <<>>
    \/ v.t = "list" /\ v.items = <<>>

\* C2 as stated: the key of an attribute whose value is None or empty (empty
\* string, empty mapping, empty sequence) appears nowhere in the rendered text.
C2_EmptyNeverRendered ==
    (IsRender(out) /\ ~out.err) =>
        \A k \in DOMAIN Vars(out.cls) :
            IsEmptyEquivalent(Vars(out.cls)[k]) => k \notin KeysIn(out.lines)

\* C2 as amended: the key of an attribute whose value is None heads no line
\* or block of the rendered text.
C2_NoneNeverRendered ==
    (IsRender(out) /\ ~out.err) =>
        \A k \in DOMAIN Vars(out.cls) :
            Vars(out.cls)[k].t = "none" => k \notin Heads(out.lines)

C2_Witness ==
    /\ out.op = "generate_spider_attributes_code"
    /\ ~out.err
    /\ "name" \in DOMAIN Vars(out.cls) /\ Vars(out.cls)["name"].t = "none"
    /\ "download_delay" \in DOMAIN Vars(out.cls) /\ Vars(out.cls)["download_delay"].t = "none"
    /\ Heads(out.lines) = {"item_attributes", "start_urls", "user_agent"}

Without(d, k) == [x \in DOMAIN d \ {k} |-> d[x]]

RenderOf(o, d) ==
    IF o.op = "generate_spider_code" THEN SpiderCode(o.cls, d) ELSE AttributesCode(d)

AllStr(vs) == \A i \in 1..Len(vs) : vs[i].t = "str"

\* anything other than a string, a mapping of strings or a sequence of strings
Unsupported(v) ==
    ~ \/ v.t = "str"
      \/ v.t = "dict" /\ AllStr([i \in 1..Len(heap[v.ref]) |-> heap[v.ref][i].v])
      \/ v.t = "list" /\ AllStr(v.items)

\* C8 as stated: an attribute whose value is of an unsupported type raises no
\* error, its key is not in the rendered text, and the rest is rendered as if
\* the attribute were absent.
C8_UnsupportedDropped ==
    IsRender(out) =>
        \A k \in DOMAIN Vars(out.cls) :
            (~StartsWithUnderscore(k) /\ Unsupported(Vars(out.cls)[k])) =>
                /\ ~out.err
                /\ k \notin Heads(out.lines)
                /\ out.lines = RenderOf(out, Without(Vars(out.cls), k)).lines

\* C8 as amended: an attribute whose value is neither a string nor a mapping
\* and has no length (None, a number, a function) heads no line or block and
\* the rest is rendered as if it were absent; the call raises only when some
\* public attribute has a length but cannot be iterated.
C8_UnsizedDropped ==
    IsRender(out) =>
        /\ out.err =>
              \E k \in DOMAIN Vars(out.cls) :
                  ~StartsWithUnderscore(k) /\ Vars(out.cls)[k].t = "sized"
        /\ ~out.err =>
              \A k \in DOMAIN Vars(out.cls) :
                  Vars(out.cls)[k].t \in {"none", "int", "func"} =>
                      /\ k \notin Heads(out.lines)
                      /\ out.lines = RenderOf(out, Without(Vars(out.cls), k)).lines

C8_Witness ==
    /\ out.op = "generate_spider_attributes_code"
    /\ ~out.err
    /\ "download_delay" \in DOMAIN Vars(out.cls) /\ Vars(out.cls)["download_delay"].t = "int"
    /\ "parse" \in DOMAIN Vars(out.cls) /\ Vars(out.cls)["parse"].t = "func"
    /\ Heads(out.lines) = {"name", "allowed_domains", "user_agent"}

-----------------------------------------------------------------------------
(* Declarations and the texts rendered after them.                         *)

Given(kw, k) == k \in DOMAIN kw /\ Truthy(kw[k])

\* the text has an item_attributes block with the line key = "val"
BlockHas(lines, key, val) ==
    \E i, j \in 1..Len(lines) :
        /\ i < j
        /\ lines[i].l = "dict_open" /\ lines[i].k = "item_attributes"
        /\ lines[j] = Line("sub", key, val)
        /\ \A m \in i..j : lines[m].l # "dict_close"

Folded(o, kw, idKey, nameKey) ==
    Given(kw, idKey) =>
        /\ ~o.err
        /\ BlockHas(o.lines, idKey, kw[idKey].s)
        /\ Given(kw, nameKey) => BlockHas(o.lines, nameKey, kw[nameKey].s)

\* C3: every render of a class declared with a non-empty brand_wikidata
\* (operator_wikidata) has an item_attributes block holding that value, and
\* the brand (operator) name when one was given, whether item_attributes was
\* absent, defined in the body or inherited.
C3_MetadataFolded ==
    IsRender(out) =>
        /\ Folded(out, classes[out.cls].kw, "brand_wikidata", "brand")
        /\ Folded(out, classes[out.cls].kw, "operator_wikidata", "operator")

\* the class had a name attribute, its own or inherited, before the hook ran
HadName(c) ==
    \/ "name" \in DOMAIN classes[c].body
    \/ HasAttr(classes, classes[c].bases[1], "name")

NameLines(lines) == {lines[i] : i \in {x \in 1..Len(lines) : lines[x].l = "attr" /\ lines[x].k = "name"}}

\* C4 as stated: after a class that already has a name is declared with a
\* non-empty spider_key, the name line of every render shows the spider_key,
\* whatever other metadata the declaration supplied.
C4_SpiderKeyShown ==
    (IsRender(out) /\ ~out.err /\ HadName(out.cls) /\ Given(classes[out.cls].kw, "spider_key")) =>
        NameLines(out.lines) = {Line("attr", "name", classes[out.cls].kw["spider_key"].s)}

ExtractsName(kw) ==
    /\ Given(kw, "extracted_attributes")
    /\ \E i \in 1..Len(kw["extracted_attributes"].items) :
           kw["extracted_attributes"].items[i].k = "name"

\* C4 as amended: the same, provided the extracted_attributes of the
\* declaration do not themselves define name.
C4_SpiderKeyShownUnlessExtracted ==
    (IsRender(out) /\ ~out.err /\ HadName(out.cls) /\ Given(classes[out.cls].kw, "spider_key")
       /\ ~ExtractsName(classes[out.cls].kw)) =>
        NameLines(out.lines) = {Line("attr", "name", classes[out.cls].kw["spider_key"].s)}

C4_Witness ==
    /\ out.op = "generate_spider_code" /\ ~out.err
    /\ "name" \in DOMAIN classes[out.cls].body
    /\ Given(classes[out.cls].kw, "spider_key")
    /\ Given(classes[out.cls].kw, "brand_wikidata")
    /\ Given(classes[out.cls].kw, "extracted_attributes")
    /\ Line("attr", "name", "new_name") \in NameLines(out.lines)
    /\ Len(classes) = MaxClasses /\ out.cls = 1

\* C5: a render changes no class and no dict, and a render that follows a
\* render of the same class by the same function returns the same text.
C5_RenderReadOnly ==
    [][IsRender(out') =>
          /\ classes' = classes
          /\ heap' = heap
          /\ (out.op = out'.op /\ out.cls = out'.cls) => out' = out]_vars

C5_Witness ==
    /\ out.op = "generate_spider_code" /\ ~out.err
    /\ Given(classes[out.cls].kw, "brand_wikidata")
    /\ BlockHas(out.lines, "brand_wikidata", classes[out.cls].kw["brand_wikidata"].s)
    /\ BlockHas(out.lines, "brand", "Acme")

\* the content of the item_attributes a class sees ("-" when it sees none)
ItemAttributesOf(c) ==
    IF ~HasAttr(classes, c, "item_attributes") THEN <<"-">>
    ELSE LET v == GetAttr(classes, c, "item_attributes")
         IN  IF v.t = "dict" THEN heap[v.ref] ELSE <<v.t>>

\* C9: a declaration leaves every earlier class as it was: its attributes,
\* the content of its item_attributes and its rendered text.
C9_DeclarationFrame ==
    [][\A c \in 1..Len(classes) :
          /\ classes'[c] = classes[c]
          /\ ItemAttributesOf(c)' = ItemAttributesOf(c)
          /\ generate_spider_code(c)' = generate_spider_code(c)]_vars

-----------------------------------------------------------------------------
(* The detection protocol.  A store finder class is a set of detection     *)
(* methods; each returns True, False, or a Request whose                   *)
(* meta["next_detection_method"] names the method for the response.        *)

\* the method a class inherits when it overrides nothing
Base == 0

Return(kind, val, next, rec) == [kind |-> kind, val |-> val, next |-> next, rec |-> rec]

\* line 94
storefinder_exists == Return("bool", FALSE, 0, EmptyRecord)

DetectionReturns ==
    {Return("bool", b, 0, EmptyRecord) : b \in BOOLEAN}
    \cup {Return("request", FALSE, j, EmptyRecord) : j \in 1..MaxMethods}

\* what detection method m returns for a response
DetectionMethod(m) == IF m = Base THEN storefinder_exists ELSE plugin.ret[m]

\* a plausible slip of the caller: whatever is returned is read as the result
ChainEndsAlways(r) == r.kind \in {"bool", "dict", "request"}

\* the caller ends the chain at a value that is no Request
ChainEnds(r) == r.kind # "request"

\* the request the caller sends on: its meta holds the continuation and,
\* for extraction, the partial record
Pending(r) == [next |-> r.next, extracted_attributes |-> r.rec]

\* the caller's handling of what a method returned
Handle(m, r, rest) ==
    /\ steps' = Append(steps, m)
    /\ IF ChainEnds(r)
       THEN /\ phase' = "done"
            /\ result' = [kind |-> r.kind, val |-> r.val, rec |-> r.rec]
            /\ flight' = rest
       ELSE /\ phase' = "pending"
            /\ flight' = Append(rest, Pending(r))
            /\ UNCHANGED result
    /\ UNCHANGED <<plugin, genVars, pocztaVars>>

Remove(s, i) == SubSeq(s, 1, i - 1) \o SubSeq(s, i + 1, Len(s))

\* the first response of the site goes to the class's storefinder_exists
DetectStart ==
    /\ phase = "idle"
    /\ Handle(plugin.entry, DetectionMethod(plugin.entry), flight)

\* the response to a pending request goes to the method its meta names
DetectResponse ==
    /\ phase = "pending"
    /\ Len(steps) < MaxSteps
    /\ \E i \in 1..Len(flight) :
           Handle(flight[i].next, DetectionMethod(flight[i].next), Remove(flight, i))

InitDetect ==
    /\ GeneratorIdle
    /\ PocztaIdle
    /\ plugin \in [entry : {Base, 1}, ret : [1..MaxMethods -> DetectionReturns]]
    /\ phase = "idle"
    /\ flight = <<>>
    /\ steps = <<>>
    /\ result = NoResult

NextDetect == DetectStart \/ DetectResponse

SpecDetect == InitDetect /\ [][NextDetect]_vars

\* C6: the chain has at most one request in flight; it ends only at a method
\* that returned a boolean, every method before it having returned a request
\* that named the next one, and its result is that boolean.
C6_ChainVerdict ==
    /\ Len(flight) <= 1
    /\ phase = "pending" => Len(flight) = 1 /\ result = NoResult
    /\ phase = "done" =>
          /\ flight = <<>>
          /\ \A i \in 1..(Len(steps) - 1) :
                /\ DetectionMethod(steps[i]).kind = "request"
                /\ DetectionMethod(steps[i]).next = steps[i + 1]
          /\ DetectionMethod(steps[Len(steps)]).kind = "bool"
          /\ result.kind = "bool"
          /\ result.val = DetectionMethod(steps[Len(steps)]).val

C6_Witness ==
    /\ phase = "done"
    /\ steps = <<1, 2, 3>>
    /\ result.val = TRUE

-----------------------------------------------------------------------------
(* The extraction protocol.  Each method adds what it extracts to the      *)
(* partial record of meta["extracted_attributes"] and returns the record,  *)
(* or a Request that carries it and names the next method in               *)
(* meta["next_extraction_method"].                                         *)

\* a plausible slip: the inherited method returns a placeholder record
extract_spider_attributes_placeholder == Return("dict", FALSE, 0, "name" :> "")

\* line 133
extract_spider_attributes == Return("dict", FALSE, 0, EmptyRecord)

Contributions ==
    { EmptyRecord,
      "start_urls" :> "https://acme.example/stores",
      ("start_urls" :> "https://acme.example/api") @@ ("allowed_domains" :> "acme.example") }

ExtractionReturns ==
    {Return("dict", FALSE, 0, c) : c \in Contributions}
    \cup {Return("request", FALSE, j, c) : j \in 1..MaxMethods, c \in Contributions}

\* the record a method builds: the partial record, with what the method
\* extracts added and what it extracts again redefined
Merge(partial, contrib) ==
    [k \in DOMAIN partial \cup DOMAIN contrib |->
        IF k \in DOMAIN contrib THEN contrib[k] ELSE partial[k]]

\* what extraction method m returns for a response whose meta carries partial
ExtractionMethod(m, partial) ==
    IF m = Base THEN extract_spider_attributes
    ELSE [plugin.ret[m] EXCEPT !.rec = Merge(partial, @)]

\* the first response of the site goes to the class's extract_spider_attributes
ExtractStart ==
    /\ phase = "idle"
    /\ Handle(plugin.entry, ExtractionMethod(plugin.entry, EmptyRecord), flight)

\* the response to a pending request goes to the method its meta names
ExtractResponse ==
    /\ phase = "pending"
    /\ Len(steps) < MaxSteps
    /\ \E i \in 1..Len(flight) :
           Handle(flight[i].next,
                  ExtractionMethod(flight[i].next, flight[i].extracted_attributes),
                  Remove(flight, i))

InitExtract ==
    /\ GeneratorIdle
    /\ PocztaIdle
    /\ plugin \in [entry : {Base, 1}, ret : [1..MaxMethods -> ExtractionReturns]]
    /\ phase = "idle"
    /\ flight = <<>>
    /\ steps = <<>>
    /\ result = NoResult

NextExtract == ExtractStart \/ ExtractResponse

SpecExtract == InitExtract /\ [][NextExtract]_vars

\* what step i of the chain contributed
Contributed(i) == IF steps[i] = Base THEN EmptyRecord ELSE plugin.ret[steps[i]].rec

\* the record the steps so far amount to: every contributed key, each with
\* the value of the last step that defined it
Accumulates(rec) ==
    /\ DOMAIN rec = UNION {DOMAIN Contributed(i) : i \in 1..Len(steps)}
    /\ \A k \in DOMAIN rec :
          \E i \in 1..Len(steps) :
              /\ k \in DOMAIN Contributed(i)
              /\ \A j \in (i + 1)..Len(steps) : k \notin DOMAIN Contributed(j)
              /\ rec[k] = Contributed(i)[k]

-----------------------------------------------------------------------------
(* PocztaPolskaPLSpider: parse turns the listing into one point-info       *)
(* request per location, parse2 completes and yields the item the request  *)
(* carries.  parse is a generator: it runs one location at a time, and     *)
(* responses may arrive in between and in any order.                       *)

\* what dict.get and a missing field give
None == "<None>"

Location(pni, name, lat, lon) ==
    ("pni" :> pni) @@ ("name" :> name) @@ ("latitude" :> lat) @@ ("longitude" :> lon)

\* the locations a listing may hold: two offices, a second entry with the
\* pni of the first, and one without a name
Locations ==
    { Location(101, "UP Warszawa 1", "52.2", "21.0"),
      Location(202, "UP Lodz 1", "51.7", "19.4"),
      Location(101, "FUP Warszawa 1", "52.3", "21.1"),
      ("pni" :> 7) @@ ("latitude" :> "50.0") @@ ("longitude" :> "19.9") }

Digit(d) ==
    CASE d = 0 -> "0" [] d = 1 -> "1" [] d = 2 -> "2" [] d = 3 -> "3" [] d = 4 -> "4"
      [] d = 5 -> "5" [] d = 6 -> "6" [] d = 7 -> "7" [] d = 8 -> "8" [] d = 9 -> "9"

\* str(n) of a natural number: its decimal digits
RECURSIVE Str(_)
Str(n) == IF n < 10 THEN Digit(n) ELSE Str(n \div 10) \o Digit(n % 10)

\* location.get(k)
Get(location, k) == IF k \in DOMAIN location THEN location[k] ELSE None

\* item[k] = v
Set(item, k, v) == [x \in DOMAIN item \cup {k} |-> IF x = k THEN v ELSE item[x]]

\* Feature()
Feature == [x \in {} |-> None]

\* lines 32-37: the item of one location
ItemOf(location) ==
    Set(Set(Set(Set(Set(Feature,
        "ref", Get(location, "pni")),
        "name", Get(location, "name")),
        "lat", Get(location, "latitude")),
        "lon", Get(location, "longitude")),
        "extras", "post_office")

\* lines 38-43; loc records which location the request was made for
FormRequest(item, pointid, loc) == [pointid |-> pointid, item |-> item, loc |-> loc]

\* the listing response arrives and parse is called
ParseCall ==
    /\ pc = -1
    /\ pc' = 0
    /\ UNCHANGED <<listing, items, requests, issued, yielded, genVars, chainVars>>

\* a plausible slip: one Feature made before the loop and reused
ParseStepSharedItem ==
    /\ pc >= 0 /\ pc < Len(listing)
    /\ LET location == listing[pc + 1]
           item == ItemOf(location)
           req == FormRequest(1, Str(item["ref"]), pc + 1)
       IN  /\ items' = IF items = <<>> THEN <<item>> ELSE [items EXCEPT ![1] = item]
           /\ requests' = Append(requests, req)
           /\ issued' = Append(issued, req)
    /\ pc' = pc + 1
    /\ UNCHANGED <<listing, yielded, genVars, chainVars>>

\* lines 31-43: one turn of the loop of parse
ParseStep ==
    /\ pc >= 0 /\ pc < Len(listing)
    /\ LET location == listing[pc + 1]
           item == ItemOf(location)
           req == FormRequest(Len(items) + 1, Str(item["ref"]), pc + 1)
       IN  /\ items' = Append(items, item)
           /\ requests' = Append(requests, req)
           /\ issued' = Append(issued, req)
    /\ pc' = pc + 1
    /\ UNCHANGED <<listing, yielded, genVars, chainVars>>

\* the point-info pages the server may answer with: a full one, one without
\* the phones block (line 49 raises), one without the address block (line 53
\* raises), one whose city has two words (line 55 raises)
Pages == {"full", "no_phones", "no_address", "two_word_city"}

\* lines 46-55: the item after parse2 ran on a page, as far as it got
Parse2Item(item, page, pointid) ==
    IF page = "no_phones" THEN item
    ELSE LET i1 == Set(item, "phone", "tel" \o pointid)
         IN  IF page = "no_address" THEN i1
             ELSE LET i2 == Set(Set(i1, "street", "ul " \o pointid), "housenumber", "1")
                  IN  IF page = "two_word_city" THEN i2
                      ELSE Set(Set(i2, "postcode", "00-" \o pointid), "city", "Miasto")

\* lines 45-57: the response to request i arrives and parse2 runs on it
Parse2(i, page) ==
    /\ i \in 1..Len(requests)
    /\ LET req == requests[i]
           item == Parse2Item(items[req.item], page, req.pointid)
       IN  /\ items' = [items EXCEPT ![req.item] = item]
           /\ yielded' = IF page = "full"
                          THEN Append(yielded, [item |-> item, loc |-> req.loc])
                          ELSE yielded
    /\ requests' = Remove(requests, i)
    /\ UNCHANGED <<listing, pc, issued, genVars, chainVars>>

InitPoczta ==
    /\ GeneratorIdle
    /\ ChainIdle
    /\ listing \in UNION {[1..n -> Locations] : n \in 0..MaxLocations}
    /\ pc = -1
    /\ items = <<>>
    /\ requests = <<>>
    /\ issued = <<>>
    /\ yielded = <<>>

NextPoczta ==
    \/ ParseCall
    \/ ParseStep
    \/ \E i \in 1..MaxLocations, page \in Pages : Parse2(i, page)

SpecPoczta == InitPoczta /\ [][NextPoczta]_vars

\* the fields parse set on an item are those of the location
FieldsOf(item, location) ==
    /\ item["ref"] = Get(location, "pni")
    /\ item["name"] = Get(location, "name")
    /\ item["lat"] = Get(location, "latitude")
    /\ item["lon"] = Get(location, "longitude")

\* C10: parse yields one request per location handled, each carrying an item
\* of its own with that location's fields; every item parse2 yields has the
\* fields of the location its request was made for; no location yields two.
C10_ItemsKeepTheirLocation ==
    /\ Len(issued) = (IF pc = -1 THEN 0 ELSE pc)
    /\ \A i \in 1..Len(issued) :
          /\ issued[i].loc = i
          /\ issued[i].pointid \in {"101", "202", "7"}
          /\ (issued[i].pointid = "101") = (listing[i]["pni"] = 101)
          /\ (issued[i].pointid = "7") = (listing[i]["pni"] = 7)
          /\ FieldsOf(items[issued[i].item], listing[i])
          /\ \A j \in 1..Len(issued) : i # j => issued[i].item # issued[j].item
    /\ \A y \in 1..Len(yielded) :
          /\ FieldsOf(yielded[y].item, listing[yielded[y].loc])
          /\ \A z \in 1..Len(yielded) : y # z => yielded[y].loc # yielded[z].loc

C10_Witness ==
    /\ pc = Len(listing) /\ Len(listing) = MaxLocations
    /\ Len(yielded) = MaxLocations
    /\ yielded[1].loc = MaxLocations
    /\ listing[1]["pni"] = listing[2]["pni"] /\ listing[1] # listing[2]
    /\ requests = <<>>

====
